---------------------------- MODULE Spec2Model ----------------------------
(***************************************************************************)
(* Book2Slide: the view-state controller (App), the generation service     *)
(* (generateBookInfographic) with its JSON recovery, and the slide viewer  *)
(* with its PDF export (Infographic).                                      *)
(*                                                                         *)
(* Strings that the code inspects character by character (the response     *)
(* text, the JSON candidate, JSON keys and JSON strings) are sequences of  *)
(* one-character strings.  Indices returned by IndexOf / LastIndexOf are   *)
(* 0-based, -1 when absent, like the JavaScript methods they model.  The   *)
(* backtick character is written "bt".                                     *)
(***************************************************************************)
EXTENDS Integers, Sequences, FiniteSets, TLC

(***************************************************************************)
(* Bounds of the model.                                                    *)
(***************************************************************************)
MaxTokens == 2   \* a response text is at most this many tokens long
MaxChunks == 3   \* a response carries at most this many grounding chunks
MaxCalls  == 2   \* at most this many generation calls are issued in a run

(***************************************************************************)
(* JavaScript string methods used by the recovery.                         *)
(***************************************************************************)
RECURSIVE IndexFrom(_, _, _)
IndexFrom(s, c, i) ==
  IF i > Len(s) THEN -1
  ELSE IF s[i] = c THEN i - 1
  ELSE IndexFrom(s, c, i + 1)

\* String.prototype.indexOf(c): 0-based index of the first c, or -1.
IndexOf(s, c) == IndexFrom(s, c, 1)

RECURSIVE LastIndexFrom(_, _, _)
LastIndexFrom(s, c, i) ==
  IF i < 1 THEN -1
  ELSE IF s[i] = c THEN i - 1
  ELSE LastIndexFrom(s, c, i - 1)

\* String.prototype.lastIndexOf(c): 0-based index of the last c, or -1.
LastIndexOf(s, c) == LastIndexFrom(s, c, Len(s))

\* String.prototype.substring(from, to) for 0 <= from <= to <= length.
Substring(s, from, to) == SubSeq(s, from + 1, to)

StartsWithAt(s, i, pat) ==
  /\ i + Len(pat) - 1 <= Len(s)
  /\ \A k \in 1..Len(pat) : s[i + k - 1] = pat[k]

RECURSIVE ReplaceFrom(_, _, _)
ReplaceFrom(s, pat, i) ==
  IF i > Len(s) THEN <<>>
  ELSE IF StartsWithAt(s, i, pat) THEN ReplaceFrom(s, pat, i + Len(pat))
  ELSE <<s[i]>> \o ReplaceFrom(s, pat, i + 1)

\* s.replace(/pat/g, ''): every non-overlapping match, left to right, removed.
ReplaceAll(s, pat) == ReplaceFrom(s, pat, 1)

IsWs(c) == c \in {" ", "\n", "\t", "\r"}

RECURSIVE TrimStart(_)
TrimStart(s) ==
  IF s # <<>> /\ IsWs(Head(s)) THEN TrimStart(Tail(s)) ELSE s

RECURSIVE TrimEnd(_)
TrimEnd(s) ==
  IF s # <<>> /\ IsWs(s[Len(s)]) THEN TrimEnd(SubSeq(s, 1, Len(s) - 1)) ELSE s

\* String.prototype.trim().
Trim(s) == TrimEnd(TrimStart(s))

(***************************************************************************)
(* JSON values and JSON.parse.  A value is a tagged record; an object's    *)
(* payload is a function from its keys (character sequences) to values,    *)
(* a later duplicate key replacing an earlier one as JSON.parse does.      *)
(* The grammar covers objects, arrays, strings without escapes and         *)
(* unsigned integers, which is every JSON form the response texts below    *)
(* can contain; anything else is a SyntaxError.                            *)
(***************************************************************************)
JNum(n) == [t |-> "num", v |-> n]
JStr(s) == [t |-> "str", v |-> s]
JArr(a) == [t |-> "arr", v |-> a]
JObj(m) == [t |-> "obj", v |-> m]
\* an array that has been given a sources property
JArrWithSources(a, src) == [t |-> "arr", v |-> a, sources |-> src]

EmptyMap == [k \in {} |-> 0]

Digits == {"0", "1", "2", "3", "4", "5", "6", "7", "8", "9"}
DigitVal(c) ==
  CASE c = "0" -> 0 [] c = "1" -> 1 [] c = "2" -> 2 [] c = "3" -> 3
    [] c = "4" -> 4 [] c = "5" -> 5 [] c = "6" -> 6 [] c = "7" -> 7
    [] c = "8" -> 8 [] c = "9" -> 9

ParseFail == [ok |-> FALSE, pos |-> 0, val |-> JNum(0)]
ParseOk(v, p) == [ok |-> TRUE, pos |-> p, val |-> v]

RECURSIVE SkipWs(_, _)
SkipWs(s, i) == IF i <= Len(s) /\ IsWs(s[i]) THEN SkipWs(s, i + 1) ELSE i

RECURSIVE ParseDigits(_, _, _)
ParseDigits(s, i, acc) ==
  IF i <= Len(s) /\ s[i] \in Digits
  THEN ParseDigits(s, i + 1, acc * 10 + DigitVal(s[i]))
  ELSE ParseOk(JNum(acc), i)

\* s[i] is a digit; a leading zero may not be followed by another digit.
ParseNumber(s, i) ==
  IF s[i] = "0" /\ i + 1 <= Len(s) /\ s[i + 1] \in Digits THEN ParseFail
  ELSE ParseDigits(s, i, 0)

RECURSIVE StringEnd(_, _)
StringEnd(s, i) ==
  IF i > Len(s) THEN 0
  ELSE IF s[i] = "\"" THEN i
  ELSE IF s[i] \in {"\n", "\t", "\r", "\\"} THEN 0
  ELSE StringEnd(s, i + 1)

\* s[i] is the opening quote.
ParseString(s, i) ==
  LET j == StringEnd(s, i + 1)
  IN  IF j = 0 THEN ParseFail ELSE ParseOk(JStr(SubSeq(s, i + 1, j - 1)), j + 1)

RECURSIVE ParseValue(_, _)
RECURSIVE ParseMembers(_, _, _)
RECURSIVE ParseElements(_, _, _)

ParseMembers(s, i, m) ==
  LET k == SkipWs(s, i)
  IN  IF k > Len(s) \/ s[k] # "\"" THEN ParseFail
      ELSE LET key == ParseString(s, k)
               c   == IF key.ok THEN SkipWs(s, key.pos) ELSE 0
           IN  IF ~key.ok \/ c > Len(s) \/ s[c] # ":" THEN ParseFail
               ELSE LET val == ParseValue(s, c + 1)
                        e   == IF val.ok THEN SkipWs(s, val.pos) ELSE 0
                        m2  == (key.val.v :> val.val) @@ m
                    IN  IF ~val.ok \/ e > Len(s) THEN ParseFail
                        ELSE IF s[e] = "," THEN ParseMembers(s, e + 1, m2)
                        ELSE IF s[e] = "}" THEN ParseOk(JObj(m2), e + 1)
                        ELSE ParseFail

ParseElements(s, i, a) ==
  LET val == ParseValue(s, i)
      e   == IF val.ok THEN SkipWs(s, val.pos) ELSE 0
      a2  == Append(a, val.val)
  IN  IF ~val.ok \/ e > Len(s) THEN ParseFail
      ELSE IF s[e] = "," THEN ParseElements(s, e + 1, a2)
      ELSE IF s[e] = "]" THEN ParseOk(JArr(a2), e + 1)
      ELSE ParseFail

ParseValue(s, i) ==
  LET k == SkipWs(s, i)
  IN  IF k > Len(s) THEN ParseFail
      ELSE IF s[k] = "{" THEN
             LET j == SkipWs(s, k + 1)
             IN  IF j <= Len(s) /\ s[j] = "}" THEN ParseOk(JObj(EmptyMap), j + 1)
                 ELSE ParseMembers(s, k + 1, EmptyMap)
      ELSE IF s[k] = "[" THEN
             LET j == SkipWs(s, k + 1)
             IN  IF j <= Len(s) /\ s[j] = "]" THEN ParseOk(JArr(<<>>), j + 1)
                 ELSE ParseElements(s, k + 1, <<>>)
      ELSE IF s[k] = "\"" THEN ParseString(s, k)
      ELSE IF s[k] \in Digits THEN ParseNumber(s, k)
      ELSE ParseFail

\* JSON.parse(s): [ok |-> TRUE, val |-> value], or ok = FALSE for a SyntaxError.
JSONParse(s) ==
  LET r == ParseValue(s, 1)
  IN  IF r.ok /\ SkipWs(s, r.pos) = Len(s) + 1
      THEN [ok |-> TRUE, val |-> r.val]
      ELSE [ok |-> FALSE, val |-> JNum(0)]

(***************************************************************************)
(* Character sequences: JSON keys the code names, and the pieces response  *)
(* texts are built from.                                                   *)
(***************************************************************************)
Bt == "bt"
Quoted(s) == <<"\"">> \o s \o <<"\"">>

SourcesKey     == <<"s", "o", "u", "r", "c", "e", "s">>
TitleKey       == <<"t", "i", "t", "l", "e">>
CharactersKey  == <<"c", "h", "a", "r", "a", "c", "t", "e", "r", "s">>
PlotArcKey     == <<"p", "l", "o", "t", "A", "r", "c">>
ThemesKey      == <<"t", "h", "e", "m", "e", "s">>
KeyConceptsKey == <<"k", "e", "y", "C", "o", "n", "c", "e", "p", "t", "s">>
TakeawaysKey   == <<"t", "a", "k", "e", "a", "w", "a", "y", "s">>
ScalarKeys ==
  { TitleKey,
    <<"a", "u", "t", "h", "o", "r">>,
    <<"t", "a", "g", "l", "i", "n", "e">>,
    <<"g", "e", "n", "r", "e">>,
    <<"p", "u", "b", "l", "i", "c", "a", "t", "i", "o", "n", "Y", "e", "a", "r">>,
    <<"s", "u", "m", "m", "a", "r", "y">>,
    <<"t", "a", "r", "g", "e", "t", "A", "u", "d", "i", "e", "n", "c", "e">>,
    <<"k", "e", "y", "Q", "u", "o", "t", "e">> }

FenceMarker     == <<Bt, Bt, Bt>>
FenceJsonMarker == FenceMarker \o <<"j", "s", "o", "n">>

EmptyArrayMember(key) == Quoted(key) \o <<":", "[", "]">>
SlideArrays ==
  EmptyArrayMember(CharactersKey) \o <<",">> \o EmptyArrayMember(PlotArcKey) \o <<",">>
    \o EmptyArrayMember(ThemesKey) \o <<",">> \o EmptyArrayMember(KeyConceptsKey)

\* {"title":"Dune","characters":[],"plotArc":[],"themes":[],"keyConcepts":[]}
DeckText ==
  <<"{">> \o Quoted(TitleKey) \o <<":">> \o Quoted(<<"D", "u", "n", "e">>) \o <<",">>
    \o SlideArrays \o <<"}">>
\* the same deck without a title
UntitledDeckText == <<"{">> \o SlideArrays \o <<"}">>
\* {"sources":1}: a document in which the model emitted its own sources
OwnSourcesText == <<"{">> \o Quoted(SourcesKey) \o <<":", "1", "}">>

Tokens ==
  { <<"{">>, <<"}">>, FenceMarker, FenceJsonMarker, <<" ">>, <<"1">>,
    <<"S", "o", "r", "r", "y">>, <<"[", "]">>, OwnSourcesText, DeckText, UntitledDeckText }

RECURSIVE Flatten(_)
Flatten(ts) == IF ts = <<>> THEN <<>> ELSE Head(ts) \o Flatten(Tail(ts))

\* The response texts of the model: every concatenation of at most MaxTokens tokens.
Texts == { Flatten(ts) : ts \in UNION { [1..n -> Tokens] : n \in 0..MaxTokens } }

(***************************************************************************)
(* The API response.  A grounding chunk either carries web.uri or has no   *)
(* web entry; chunk.web?.uri is then undefined.                            *)
(***************************************************************************)
Uris ==
  { <<"h", "t", "t", "p", "s", ":", "/", "/", "a", ".", "i", "o">>,
    <<"h", "t", "t", "p", "s", ":", "/", "/", "b", ".", "i", "o">> }
Chunks == { [hasUri |-> TRUE, uri |-> u] : u \in Uris } \cup { [hasUri |-> FALSE, uri |-> <<>>] }
Groundings == UNION { [1..n -> Chunks] : n \in 0..MaxChunks }

ApiErrors == { "TypeError: Failed to fetch", "ApiError: 503 UNAVAILABLE" }

NoResponse == [ok |-> TRUE, text |-> <<>>, groundingChunks |-> <<>>, error |-> ""]
\* what ai.models.generateContent settles with: a response, or a rejection
Responses ==
  { [ok |-> TRUE, text |-> t, groundingChunks |-> g, error |-> ""] : t \in Texts, g \in Groundings }
    \cup { [ok |-> FALSE, text |-> <<>>, groundingChunks |-> <<>>, error |-> e] : e \in ApiErrors }

(***************************************************************************)
(* generateBookInfographic, after the awaited API call has settled.        *)
(***************************************************************************)
SyntaxErrorMessage == "SyntaxError: Unexpected token in JSON"
TypeErrorMessage == "TypeError: Cannot create property 'sources'"
GenericFailure == "Failed to generate deep analysis. Please check the title/author and try again."

\* faulty variant: an empty text is not replaced
TextOrDefault_Identity(text) == text

\* const text = response.text || "{}"
TextOrDefault(text) == IF text = <<>> THEN <<"{", "}">> ELSE text

RECURSIVE SelectUris(_)
SelectUris(groundings) ==
  IF groundings = <<>> THEN <<>>
  ELSE LET chunk == Head(groundings)
       IN  (IF chunk.hasUri /\ chunk.uri # <<>> THEN <<JStr(chunk.uri)>> ELSE <<>>)
             \o SelectUris(Tail(groundings))

RECURSIVE MapUris(_)
MapUris(groundings) ==
  IF groundings = <<>> THEN <<>>
  ELSE <<JStr(Head(groundings).uri)>> \o MapUris(Tail(groundings))

\* faulty variant: the map without the filter
ExtractSources_Unfiltered(groundings) == MapUris(groundings)

\* groundings.map(chunk => chunk.web?.uri).filter(uri => !!uri)
ExtractSources(groundings) == SelectUris(groundings)

\* faulty variant: the span stops before the last brace
CleanJson_ExclusiveEnd(text) ==
  LET firstBrace == IndexOf(text, "{")
      lastBrace  == LastIndexOf(text, "}")
  IN  IF firstBrace # -1 /\ lastBrace # -1 /\ lastBrace > firstBrace
      THEN Substring(text, firstBrace, lastBrace)
      ELSE Trim(ReplaceAll(ReplaceAll(text, FenceJsonMarker), FenceMarker))

\* faulty variant: the fallback does not trim
CleanJson_NoTrim(text) ==
  LET firstBrace == IndexOf(text, "{")
      lastBrace  == LastIndexOf(text, "}")
  IN  IF firstBrace # -1 /\ lastBrace # -1 /\ lastBrace > firstBrace
      THEN Substring(text, firstBrace, lastBrace + 1)
      ELSE ReplaceAll(ReplaceAll(text, FenceJsonMarker), FenceMarker)

\* the "Robust JSON Extraction" of the response text
CleanJson(text) ==
  LET firstBrace == IndexOf(text, "{")
      lastBrace  == LastIndexOf(text, "}")
  IN  IF firstBrace # -1 /\ lastBrace # -1 /\ lastBrace > firstBrace
      THEN Substring(text, firstBrace, lastBrace + 1)
      ELSE Trim(ReplaceAll(ReplaceAll(text, FenceJsonMarker), FenceMarker))

\* data.sources = sources: sets the property on an object or an array; on a
\* primitive the assignment is a TypeError (module code is strict).
\* faulty variant: the assignment on a primitive is silently ignored
CanAttach_Always(val) == TRUE

CanAttach(val) == val.t \in {"obj", "arr"}
AttachSources(val, sources) ==
  IF val.t = "obj" THEN JObj((SourcesKey :> JArr(sources)) @@ val.v)
  ELSE JArrWithSources(val.v, JArr(sources))

Idle ==
  [pc |-> "idle", response |-> NoResponse, cleanJson |-> <<>>, sources |-> <<>>,
   caught |-> "", value |-> JObj(EmptyMap)]
\* ai.models.generateContent has been called and is awaited
Awaiting == [Idle EXCEPT !.pc = "awaiting"]

Returned(response, cleanJson, sources, value) ==
  [pc |-> "returned", response |-> response, cleanJson |-> cleanJson, sources |-> sources,
   caught |-> "", value |-> value]
\* faulty variant: the catch block rethrows what it caught
Caught_Rethrow(response, cleanJson, sources, error) ==
  [pc |-> "threw", response |-> response, cleanJson |-> cleanJson, sources |-> sources,
   caught |-> error, value |-> [isError |-> TRUE, message |-> error]]

\* the catch block: the caught error is logged, a new Error(GenericFailure) is thrown
Caught(response, cleanJson, sources, error) ==
  [pc |-> "threw", response |-> response, cleanJson |-> cleanJson, sources |-> sources,
   caught |-> error, value |-> [isError |-> TRUE, message |-> GenericFailure]]

\* The try block from the settled API call to return or throw.
Settle(response) ==
  IF ~response.ok THEN Caught(response, <<>>, <<>>, response.error)
  ELSE LET text      == TextOrDefault(response.text)
           sources   == ExtractSources(response.groundingChunks)
           cleanJson == CleanJson(text)
           parsed    == JSONParse(cleanJson)
       IN  IF ~parsed.ok THEN Caught(response, cleanJson, sources, SyntaxErrorMessage)
           ELSE IF ~CanAttach(parsed.val)
             THEN Caught(response, cleanJson, sources, TypeErrorMessage)
           ELSE Returned(response, cleanJson, sources, AttachSources(parsed.val, sources))

(***************************************************************************)
(* Infographic: what its render needs of the document, the hidden print    *)
(* container, and the PDF document under assembly.                         *)
(***************************************************************************)
totalSlides == 10

Null == [t |-> "null", v |-> 0]

IsArray(d, key) == key \in DOMAIN d.v /\ d.v[key].t = "arr"

\* Every render draws all ten slides (the viewer shows one, the print container
\* all): .slice/.map are called on characters, plotArc, themes and keyConcepts,
\* on takeaways when present, and a scalar field cannot be an object.  A render
\* that throws unmounts the application.
Renders(d) ==
  /\ d.t = "obj"
  /\ IsArray(d, CharactersKey)
  /\ IsArray(d, PlotArcKey)
  /\ IsArray(d, ThemesKey)
  /\ IsArray(d, KeyConceptsKey)
  /\ TakeawaysKey \in DOMAIN d.v => d.v[TakeawaysKey].t = "arr"
  /\ \A k \in ScalarKeys \cap DOMAIN d.v : d.v[k].t \in {"str", "num"}

\* An element is described by the slide indices it shows.  The print container
\* has a single child, the fixed-width div, which holds the ten slides.
PrintContainerChildren == << [idx \in 1..totalSlides |-> idx - 1] >>

BlankPage == <<>>
\* new jsPDF(...): a document with one blank page
NewPdf == <<BlankPage>>
\* pdf.addPage(): a blank page is appended and becomes the current page
AddPage(pages) == Append(pages, BlankPage)
\* pdf.addImage(...): the image is drawn on the current (last) page
AddImage(pages, img) == [pages EXCEPT ![Len(pages)] = Append(@, img)]

\* data.title.replace(...) needs a string title
CanSave(d) == TitleKey \in DOMAIN d.v /\ d.v[TitleKey].t = "str"

NoExport == [pc |-> "idle", i |-> 0, pages |-> <<>>]

(***************************************************************************)
(* State.                                                                  *)
(***************************************************************************)
VARIABLES
  step,          \* App: 'input' | 'loading' | 'result' | 'error'
  inputs,        \* App: [title, author]
  data,          \* App: the document, or Null
  errorMsg,      \* App
  gen,           \* the generateBookInfographic call of handleConfirm
  apiCalls,      \* number of generateContent calls issued so far
  inFlight,      \* number of generateContent calls issued and not yet settled
  currentSlide,  \* Infographic
  isDownloading, \* Infographic
  export         \* the handleDownloadPdf run of the mounted Infographic

vars ==
  <<step, inputs, data, errorMsg, gen, apiCalls, inFlight, currentSlide, isDownloading, export>>
app == <<step, inputs, data, errorMsg>>
calls == <<gen, apiCalls, inFlight>>
viewer == <<currentSlide, isDownloading, export>>

InputValues == {"", "Dune"}
ValidationMessage == "Please enter both the book title and the author."

Init ==
  /\ step = "input"
  /\ inputs = [title |-> "", author |-> ""]
  /\ data = Null
  /\ errorMsg = ""
  /\ gen = Idle
  /\ apiCalls = 0
  /\ inFlight = 0
  /\ currentSlide = 0
  /\ isDownloading = FALSE
  /\ export = NoExport

\* step === 'result' && data, and the Infographic rendered
ViewerMounted == step = "result" /\ data # Null /\ Renders(data)

\* A freshly mounted (or unmounted) Infographic: useState(0), useState(false).
ViewerReset ==
  /\ currentSlide' = 0
  /\ isDownloading' = FALSE
  /\ export' = NoExport

(***************************************************************************)
(* App.                                                                    *)
(***************************************************************************)
handleInputChange(name, value) ==
  /\ step = "input"
  /\ inputs' = [inputs EXCEPT ![name] = value]
  /\ UNCHANGED <<step, data, errorMsg>>
  /\ UNCHANGED calls
  /\ UNCHANGED viewer

\* faulty variant: only the title is validated
handleConfirm_TitleOnly ==
  /\ step = "input"
  /\ IF inputs.title = ""
     THEN /\ errorMsg' = ValidationMessage
          /\ UNCHANGED step
          /\ UNCHANGED calls
     ELSE /\ apiCalls < MaxCalls
          /\ step' = "loading"
          /\ errorMsg' = ""
          /\ gen' = Awaiting
          /\ apiCalls' = apiCalls + 1
          /\ inFlight' = inFlight + 1
  /\ UNCHANGED <<inputs, data>>
  /\ UNCHANGED viewer

\* faulty variant: the submit control is reachable from every screen
handleConfirm_AnyStep ==
  /\ IF inputs.title = "" \/ inputs.author = ""
     THEN /\ errorMsg' = ValidationMessage
          /\ UNCHANGED step
          /\ UNCHANGED calls
     ELSE /\ apiCalls < MaxCalls
          /\ step' = "loading"
          /\ errorMsg' = ""
          /\ gen' = Awaiting
          /\ apiCalls' = apiCalls + 1
          /\ inFlight' = inFlight + 1
  /\ UNCHANGED <<inputs, data>>
  /\ UNCHANGED viewer

\* The click on "Create Deck", up to the await.
handleConfirm ==
  /\ step = "input"
  /\ IF inputs.title = "" \/ inputs.author = ""
     THEN /\ errorMsg' = ValidationMessage
          /\ UNCHANGED step
          /\ UNCHANGED calls
     ELSE /\ apiCalls < MaxCalls
          /\ step' = "loading"
          /\ errorMsg' = ""
          /\ gen' = Awaiting
          /\ apiCalls' = apiCalls + 1
          /\ inFlight' = inFlight + 1
  /\ UNCHANGED <<inputs, data>>
  /\ UNCHANGED viewer

\* The API call settles and generateBookInfographic runs to its return or throw.
ApiSettles ==
  /\ gen.pc = "awaiting"
  /\ \E response \in Responses : gen' = Settle(response)
  /\ inFlight' = inFlight - 1
  /\ UNCHANGED apiCalls
  /\ UNCHANGED app
  /\ UNCHANGED viewer

\* faulty variant: a failed generation is retried once more
handleConfirmResume_RetryOnFailure ==
  /\ gen.pc \in {"returned", "threw"}
  /\ IF gen.pc = "returned"
     THEN /\ data' = gen.value
          /\ step' = "result"
          /\ gen' = Idle
          /\ UNCHANGED <<errorMsg, apiCalls, inFlight>>
     ELSE IF apiCalls < MaxCalls
     THEN /\ gen' = Awaiting
          /\ apiCalls' = apiCalls + 1
          /\ inFlight' = inFlight + 1
          /\ UNCHANGED <<step, errorMsg, data>>
     ELSE /\ step' = "error"
          /\ errorMsg' = gen.value.message
          /\ gen' = Idle
          /\ UNCHANGED <<data, apiCalls, inFlight>>
  /\ UNCHANGED inputs
  /\ ViewerReset

\* faulty variant: the catch block returns to the input screen
handleConfirmResume_ErrorToInput ==
  /\ gen.pc \in {"returned", "threw"}
  /\ IF gen.pc = "returned"
     THEN /\ data' = gen.value
          /\ step' = "result"
          /\ UNCHANGED errorMsg
     ELSE /\ step' = "input"
          /\ errorMsg' = IF gen.value.isError THEN gen.value.message
                         ELSE "An unexpected error occurred"
          /\ UNCHANGED data
  /\ gen' = Idle
  /\ UNCHANGED <<inputs, apiCalls, inFlight>>
  /\ ViewerReset

\* handleConfirm after the await: the try continues, or the catch runs.
handleConfirmResume ==
  /\ gen.pc \in {"returned", "threw"}
  /\ IF gen.pc = "returned"
     THEN /\ data' = gen.value
          /\ step' = "result"
          /\ UNCHANGED errorMsg
     ELSE /\ step' = "error"
          /\ errorMsg' = IF gen.value.isError THEN gen.value.message
                         ELSE "An unexpected error occurred"
          /\ UNCHANGED data
  /\ gen' = Idle
  /\ UNCHANGED <<inputs, apiCalls, inFlight>>
  /\ ViewerReset

\* The "Try Again" button of the error screen.
TryAgain ==
  /\ step = "error"
  /\ step' = "input"
  /\ UNCHANGED <<inputs, data, errorMsg>>
  /\ UNCHANGED calls
  /\ UNCHANGED viewer

\* faulty variant: the reset keeps the document
handleReset_KeepData ==
  /\ ViewerMounted
  /\ inputs' = [title |-> "", author |-> ""]
  /\ step' = "input"
  /\ errorMsg' = ""
  /\ UNCHANGED data
  /\ UNCHANGED calls
  /\ ViewerReset

\* faulty variant: the reset keeps the inputs
handleReset_KeepInputs ==
  /\ ViewerMounted
  /\ data' = Null
  /\ step' = "input"
  /\ errorMsg' = ""
  /\ UNCHANGED inputs
  /\ UNCHANGED calls
  /\ ViewerReset

\* onReset of the Infographic; the Infographic unmounts, and what its export
\* does afterwards reaches no state (its setState calls are dropped).
handleReset ==
  /\ ViewerMounted
  /\ inputs' = [title |-> "", author |-> ""]
  /\ data' = Null
  /\ step' = "input"
  /\ errorMsg' = ""
  /\ UNCHANGED calls
  /\ ViewerReset

(***************************************************************************)
(* Infographic.                                                            *)
(***************************************************************************)
Min(a, b) == IF a < b THEN a ELSE b
Max(a, b) == IF a > b THEN a ELSE b

\* faulty variant: the index is not clamped at the last slide
nextSlide_NoClamp ==
  /\ ViewerMounted
  /\ currentSlide' = currentSlide + 1
  /\ UNCHANGED <<isDownloading, export>>
  /\ UNCHANGED calls
  /\ UNCHANGED app

nextSlide ==
  /\ ViewerMounted
  /\ currentSlide' = Min(currentSlide + 1, totalSlides - 1)
  /\ UNCHANGED <<isDownloading, export>>
  /\ UNCHANGED calls
  /\ UNCHANGED app

prevSlide ==
  /\ ViewerMounted
  /\ currentSlide' = Max(currentSlide - 1, 0)
  /\ UNCHANGED <<isDownloading, export>>
  /\ UNCHANGED calls
  /\ UNCHANGED app

\* pdf.save(...) after the loop, then the finally block
SaveOrFail(i, pages) ==
  /\ export' = [pc |-> IF CanSave(data) THEN "saved" ELSE "failed", i |-> i, pages |-> pages]
  /\ isDownloading' = FALSE

\* The click on "Save as PDF" (disabled while isDownloading), up to the first await.
handleDownloadPdf ==
  /\ ViewerMounted
  /\ ~isDownloading
  /\ IF Len(PrintContainerChildren) > 0
     THEN /\ export' = [pc |-> "capturing", i |-> 0, pages |-> NewPdf]
          /\ isDownloading' = TRUE
     ELSE SaveOrFail(0, NewPdf)
  /\ UNCHANGED currentSlide
  /\ UNCHANGED calls
  /\ UNCHANGED app

\* html2canvas(slides[i]) resolves: the image is added, and the loop goes on
\* to the next capture or to pdf.save and the finally block.
CaptureResolves ==
  /\ export.pc = "capturing"
  /\ LET slides == PrintContainerChildren
         i      == export.i
         img    == slides[i + 1]
         pages  == AddImage(IF i > 0 THEN AddPage(export.pages) ELSE export.pages, img)
     IN  IF i + 1 < Len(slides)
         THEN /\ export' = [pc |-> "capturing", i |-> i + 1, pages |-> pages]
              /\ UNCHANGED isDownloading
         ELSE SaveOrFail(i + 1, pages)
  /\ UNCHANGED currentSlide
  /\ UNCHANGED calls
  /\ UNCHANGED app

\* faulty variant: no finally block, the flag stays set after a failure
CaptureFails_NoFinally ==
  /\ export.pc = "capturing"
  /\ export' = [export EXCEPT !.pc = "failed"]
  /\ UNCHANGED <<currentSlide, isDownloading>>
  /\ UNCHANGED calls
  /\ UNCHANGED app

\* html2canvas rejects, or toDataURL / addImage throws: the catch block alerts,
\* the finally block runs.
CaptureFails ==
  /\ export.pc = "capturing"
  /\ export' = [export EXCEPT !.pc = "failed"]
  /\ isDownloading' = FALSE
  /\ UNCHANGED currentSlide
  /\ UNCHANGED calls
  /\ UNCHANGED app

Next ==
  \/ \E name \in {"title", "author"}, value \in InputValues : handleInputChange(name, value)
  \/ handleConfirm
  \/ ApiSettles
  \/ handleConfirmResume
  \/ TryAgain
  \/ handleReset
  \/ nextSlide
  \/ prevSlide
  \/ handleDownloadPdf
  \/ CaptureResolves
  \/ CaptureFails

Spec == Init /\ [][Next]_vars

(***************************************************************************)
(* Properties.                                                             *)
(***************************************************************************)
EmptyInputs == [title |-> "", author |-> ""]
Steps == {"input", "loading", "result", "error"}

\* C1: a submit in state input with an empty title or an empty author issues no
\* generation call, leaves the step at input, sets the validation message and
\* leaves the inputs and the stored document unchanged.  (From such a state the
\* only steps are input changes and the submit; the submit is the one that
\* leaves the inputs alone.)
C1_EmptySubmitStaysInput ==
  [][ (step = "input" /\ (inputs.title = "" \/ inputs.author = ""))
        => /\ gen.pc = "idle" /\ gen' = gen
           /\ apiCalls' = apiCalls /\ inFlight' = inFlight
           /\ step' = "input"
           /\ data' = data
           /\ (inputs' = inputs => errorMsg' = ValidationMessage) ]_vars

C1_Witness ==
  /\ step = "input"
  /\ inputs = [title |-> "Dune", author |-> ""]
  /\ errorMsg = ValidationMessage
  /\ apiCalls = 0

\* C2: whenever the step is error the stored message is the fixed generic
\* message, whatever was caught (a rejected API call, a SyntaxError of
\* JSON.parse, a TypeError); the caught error's own message is never stored.
C2_ErrorMessageIsGeneric ==
  /\ step = "error" => errorMsg = GenericFailure
  /\ gen.pc = "threw" => gen.value = [isError |-> TRUE, message |-> GenericFailure]
  /\ errorMsg \notin ApiErrors \cup {SyntaxErrorMessage, TypeErrorMessage}

C2_Witness ==
  /\ step = "error"
  /\ errorMsg = GenericFailure
  /\ inputs = [title |-> "Dune", author |-> "Dune"]

\* C3: at most one generation call is in flight, a call is in flight only while
\* the step is loading, and the submit is enabled only in state input.
C3_OneCallInFlight ==
  /\ inFlight \in {0, 1}
  /\ inFlight = 1 <=> gen.pc = "awaiting"
  /\ gen.pc # "idle" => step = "loading"
  /\ (ENABLED handleConfirm) => step = "input"

C3_Witness == step = "loading" /\ inFlight = 1 /\ apiCalls = 2

\* C4: a PDF export that completes without error has ten pages, page k showing
\* slide k - 1 and nothing else, whatever slide the viewer displays.
C4_TenPagesInSlideOrder ==
  export.pc = "saved" => export.pages = [k \in 1..totalSlides |-> << <<k - 1>> >>]

HasChar(s, c) == \E k \in 1..Len(s) : s[k] = c
HasFence(s) == \E k \in 1..Len(s) : StartsWithAt(s, k, FenceMarker)
Settled == gen.pc \in {"returned", "threw"} /\ gen.response.ok
NoBraceNoFence(s) == ~HasChar(s, "{") /\ ~HasChar(s, "}") /\ ~HasFence(s)

\* c is s without its leading and trailing whitespace
IsTrimOf(c, s) ==
  /\ c = <<>> \/ (~IsWs(c[1]) /\ ~IsWs(c[Len(c)]))
  /\ \E lead \in 0..(Len(s) - Len(c)) :
       /\ \A k \in 1..Len(c) : s[lead + k] = c[k]
       /\ \A k \in 1..Len(s) : (k <= lead \/ k > lead + Len(c)) => IsWs(s[k])

\* C5 as stated: a response text with no brace and no fence marker gives the
\* JSON candidate {} and so the empty object.
C5_NoBraceGivesEmptyObject ==
  (Settled /\ NoBraceNoFence(gen.response.text))
    => /\ gen.cleanJson = <<"{", "}">>
       /\ gen.pc = "returned"

\* C5 amended: a response text with no brace and no fence marker gives the
\* candidate {} only when it is empty (it is then replaced by {} before the
\* recovery, and the document has no field but sources); any other such text
\* gives the text with its surrounding whitespace trimmed as the candidate,
\* which is not {} and does not deserialize to an object.
C5_NoBraceGivesTrimmedText ==
  (Settled /\ NoBraceNoFence(gen.response.text))
    => IF gen.response.text = <<>>
       THEN /\ gen.cleanJson = <<"{", "}">>
            /\ gen.pc = "returned"
            /\ gen.value.t = "obj" /\ DOMAIN gen.value.v = {SourcesKey}
       ELSE /\ IsTrimOf(gen.cleanJson, gen.response.text)
            /\ gen.cleanJson # <<"{", "}">>
            /\ gen.pc = "returned" => gen.value.t # "obj"

C5_Witness ==
  /\ gen.pc = "threw"
  /\ gen.response.ok
  /\ gen.response.text = <<" ", "1">>
  /\ gen.cleanJson = <<"1">>

\* C6: when the text has a '{' and its last '}' lies after its first '{', the
\* JSON candidate is exactly the text from that '{' through that '}', fence
\* markers or not.
C6_BraceSpanIsCandidate ==
  Settled =>
    LET text == gen.response.text
        opens == { k \in 1..Len(text) : text[k] = "{" }
        closes == { k \in 1..Len(text) : text[k] = "}" }
    IN  (opens # {} /\ closes # {}) =>
          LET first == CHOOSE k \in opens : \A j \in opens : k <= j
              last  == CHOOSE k \in closes : \A j \in closes : j <= k
          IN  last > first =>
                /\ Len(gen.cleanJson) = last - first + 1
                /\ \A k \in 1..Len(gen.cleanJson) : gen.cleanJson[k] = text[first + k - 1]

C6_Witness ==
  /\ gen.pc = "returned"
  /\ gen.response.text = FenceJsonMarker \o DeckText
  /\ gen.cleanJson = DeckText

\* the sources property of a returned document
SourcesOf(value) == IF value.t = "obj" THEN value.v[SourcesKey] ELSE value.sources

\* C7: the returned document's sources are the URIs of the grounding chunks
\* that have one, in their original order, whatever sources the model's own
\* JSON held.
C7_SourcesAreGroundingUris ==
  gen.pc = "returned" =>
    LET chunks == gen.response.groundingChunks
        withUri == { k \in 1..Len(chunks) : chunks[k].hasUri /\ chunks[k].uri # <<>> }
        nth(n) == CHOOSE k \in withUri : Cardinality({ j \in withUri : j <= k }) = n
    IN  SourcesOf(gen.value) = JArr([n \in 1..Cardinality(withUri) |-> JStr(chunks[nth(n)].uri)])

C7_Witness ==
  /\ gen.pc = "returned"
  /\ gen.response.text = OwnSourcesText
  /\ Len(gen.response.groundingChunks) = 3
  /\ ~gen.response.groundingChunks[2].hasUri
  /\ Len(gen.sources) = 2
  /\ gen.sources[1] # gen.sources[2]
  /\ gen.value.v[SourcesKey] = JArr(gen.sources)

\* C8: the retry in state error moves the step to input, clears the error
\* message and leaves the title and author inputs as they were.
C8_RetryClearsError ==
  [][ (step = "error" /\ step' # "error")
        => /\ step' = "input"
           /\ errorMsg' = ""
           /\ inputs' = inputs ]_vars

\* C9: the reset in state result moves the step to input, sets the document to
\* none, empties both inputs and clears the error message.
C9_ResetClearsAll ==
  [][ /\ handleReset => step = "result"
      /\ (step = "result" /\ step' # "result")
           => /\ step' = "input"
              /\ data' = Null
              /\ inputs' = EmptyInputs
              /\ errorMsg' = "" ]_vars

C9_Witness ==
  /\ step = "input"
  /\ apiCalls = 1
  /\ data = Null
  /\ inputs = EmptyInputs
  /\ errorMsg = ""

\* C10: the step is always one of input, loading, result, error, and it changes
\* only along input -> loading (title and author non-empty), loading -> result,
\* loading -> error, result -> input, error -> input.
C10_StepTransitions ==
  [][ /\ step' \in Steps
      /\ step' # step =>
           /\ <<step, step'>> \in { <<"input", "loading">>, <<"loading", "result">>,
                                    <<"loading", "error">>, <<"result", "input">>,
                                    <<"error", "input">> }
           /\ step = "input" => (inputs.title # "" /\ inputs.author # "") ]_vars

C10_Witness == step = "input" /\ apiCalls = 2 /\ errorMsg = GenericFailure

\* C11: the current slide index is always between 0 and 9; it moves by one at
\* a time, so next at 9 and previous at 0 leave it where it is.
C11_SlideIndexClamped ==
  [][ /\ currentSlide' \in 0..9
      /\ (step = "result" /\ step' = "result" /\ currentSlide' # currentSlide)
           => (currentSlide' = currentSlide + 1 \/ currentSlide' = currentSlide - 1)
      /\ (nextSlide /\ currentSlide = 9) => currentSlide' = 9
      /\ (prevSlide /\ currentSlide = 0) => currentSlide' = 0 ]_vars

C11_Witness == step = "result" /\ currentSlide = 9 /\ ENABLED nextSlide

\* C12: a PDF export that fails leaves the step at result and the document,
\* the inputs and the current slide index as they were, and the downloading
\* flag is false once the export has ended.
C12_FailedExportKeepsView ==
  [][ /\ (export'.pc = "failed" /\ export # export')
           => /\ step = "result" /\ step' = "result"
              /\ data' = data
              /\ inputs' = inputs
              /\ currentSlide' = currentSlide
              /\ isDownloading /\ ~isDownloading'
      /\ export'.pc \in {"idle", "saved", "failed"} => ~isDownloading' ]_vars

C12_Witness ==
  /\ export.pc = "failed"
  /\ export.pages = NewPdf
  /\ step = "result"
  /\ currentSlide = 3
  /\ ~isDownloading

\* C13: a generation call is issued exactly at each input -> loading step, one
\* call per step, so the number of calls equals the number of such steps and a
\* failure triggers no further call.
C13_OneCallPerSubmission ==
  [][ /\ (step = "input" /\ step' = "loading")
           => (apiCalls' = apiCalls + 1 /\ inFlight = 0 /\ inFlight' = 1)
      /\ ~(step = "input" /\ step' = "loading")
           => (apiCalls' = apiCalls /\ inFlight' <= inFlight) ]_vars

C13_Witness == step = "error" /\ apiCalls = 2 /\ inFlight = 0

\* whether JSON.parse accepts the candidate of the settled call
CandidateDeserialized == gen.response.ok /\ JSONParse(gen.cleanJson).ok

StepAfterSettlement ==
  IF CandidateDeserialized /\ JSONParse(gen.cleanJson).val.t \in {"obj", "arr"}
  THEN "result" ELSE "error"

C15_DocumentIffResult == data # Null <=> step = "result"

C15_Witness == step = "loading" /\ apiCalls = 2 /\ data = Null /\ inputs.title = "Dune"

\* C16: a successful call with an empty response text returns a document whose
\* only field is sources, holding the URIs of the grounding chunks that have
\* one, and the step then becomes result with that document.
C16_EmptyTextGivesSourcesOnly ==
  [][ (gen.pc \in {"returned", "threw"} /\ gen.response.ok /\ gen.response.text = <<>>)
        => /\ gen.pc = "returned"
           /\ DOMAIN gen.value.v = {SourcesKey}
           /\ Len(gen.value.v[SourcesKey].v) =
                Cardinality({ k \in 1..Len(gen.response.groundingChunks) :
                                gen.response.groundingChunks[k].hasUri })
           /\ \A k \in 1..Len(gen.value.v[SourcesKey].v) :
                \E j \in k..Len(gen.response.groundingChunks) :
                  /\ gen.response.groundingChunks[j].hasUri
                  /\ gen.value.v[SourcesKey].v[k] = JStr(gen.response.groundingChunks[j].uri)
           /\ step' = "result"
           /\ data' = gen.value ]_vars

C16_Witness ==
  /\ gen.pc = "returned"
  /\ gen.response.text = <<>>
  /\ Len(gen.response.groundingChunks) = 3
  /\ Len(gen.sources) = 2
  /\ DOMAIN gen.value.v = {SourcesKey}

=============================================================================
